---- MODULE Spec2Model ----
(***************************************************************************)
(* Model of project2neo.py: the pipeline that walks a project tree, parses *)
(* every .py file into a module record and writes modules, classes,        *)
(* methods, attributes and import edges into a Neo4j store via neomodel.   *)
(*                                                                         *)
(* Strings are sequences of one-character strings, so that replace,        *)
(* endswith and concatenation are computed as Python computes them.        *)
(* Every store operation (save, connect, the delete query) is one step.    *)
(***************************************************************************)
EXTENDS Integers, Sequences, FiniteSets, TLC

\* Bounds of the model.
MaxFiles == 3      \* files found by os.walk in one project
MaxRuns == 2       \* invocations of process_project on the same tree

----------------------------------------------------------------------------
\* String helpers (str.endswith, str.replace on one character, str.join).

EndsWith(s, suf) ==
  Len(s) >= Len(suf) /\ SubSeq(s, Len(s) - Len(suf) + 1, Len(s)) = suf

Replace(s, old, new) == [n \in 1..Len(s) |-> IF s[n] = old THEN new ELSE s[n]]

RECURSIVE Join(_, _)
Join(sep, parts) ==
  IF parts = <<>> THEN <<>>
  ELSE IF Len(parts) = 1 THEN parts[1]
  ELSE parts[1] \o sep \o Join(sep, Tail(parts))

RECURSIVE Dots(_)
Dots(n) == IF n <= 0 THEN <<>> ELSE <<".">> \o Dots(n - 1)

Sep == "/"
DotPy == <<".", "p", "y">>
Dot == <<".">>
Self == <<"s", "e", "l", "f">>

\* The absolute project root (os.path.abspath(project_root)).
ProjectRoot == <<"/", "r">>

\* os.path.join(root, file) for a file found by os.walk under the root.
FilePath(rel) == ProjectRoot \o <<Sep>> \o rel

\* os.path.relpath(file_path, project_root) for a path under the root.
RelPath(path) == SubSeq(path, Len(ProjectRoot) + 2, Len(path))

----------------------------------------------------------------------------
\* The source tree: what the files hold, as the AST nodes the code inspects.

Import(names) == [kind |-> "Import", module |-> <<>>, level |-> 0, names |-> names]
ImportFrom(module, level, names) ==
  [kind |-> "ImportFrom", module |-> module, level |-> level, names |-> names]
FunctionDef(name, args) ==
  [kind |-> "FunctionDef", name |-> name, args |-> args, targets |-> <<>>]
Assign(targets) ==
  [kind |-> "Assign", name |-> <<>>, args |-> <<>>, targets |-> targets]
ClassDef(name, body) == [name |-> name, body |-> body]

\* File contents: ok is whether open/ast.parse succeed; imports are the
\* Import/ImportFrom nodes in visiting order; classes are the ClassDef nodes
\* in ast.walk order (nested ones included).
Source(imports, classes) == [ok |-> TRUE, imports |-> imports, classes |-> classes]
Broken == [ok |-> FALSE, imports |-> <<>>, classes |-> <<>>]

ClassFoo ==
  ClassDef(<<"F">>, << FunctionDef(<<"m">>, <<Self, <<"x">>>>), Assign(<<<<"y">>>>) >>)
ClassC == ClassDef(<<"C">>, <<>>)

\* from . import a
\* from .a import x
RelativeImports ==
  Source(<< ImportFrom(<<>>, 1, <<<<"a">>>>),
            ImportFrom(<<"a">>, 1, <<<<"x">>>>) >>, <<>>)

Contents ==
  { Source(<<>>, <<ClassFoo>>),
    Source(<<Import(<<<<"a">>>>)>>, <<>>),
    RelativeImports,
    Source(<<>>, <<ClassC, ClassC>>),
    Broken }

RelPaths ==
  { <<"a", ".", "p", "y">>, <<"b", ".", "p", "y">>,
    <<"p", "/", "a", ".", "p", "y">>, <<"p", "/", "b", ".", "p", "y">> }

Files == { [rel |-> r, src |-> c] : r \in RelPaths, c \in Contents }

\* os.walk yields every file once, in an order the code does not control.
Projects ==
  UNION { { f \in [1..n -> Files] :
              \A x, y \in 1..n : x # y => f[x].rel # f[y].rel } : n \in 0..MaxFiles }

----------------------------------------------------------------------------
\* Symbol extraction: ImportVisitor and parse_python_file.

visit_Import(node) == [n \in 1..Len(node.names) |-> node.names[n]]

visit_ImportFrom(node) ==
  IF node.module # <<>>
  THEN [n \in 1..Len(node.names) |->
          IF node.level = 0 THEN node.module
          ELSE Dot \o Dots(node.level - 1) \o node.module]
  ELSE <<>>

RECURSIVE ImportVisitor(_)
ImportVisitor(stmts) ==
  IF stmts = <<>> THEN <<>>
  ELSE (IF Head(stmts).kind = "Import" THEN visit_Import(Head(stmts))
        ELSE visit_ImportFrom(Head(stmts))) \o ImportVisitor(Tail(stmts))

\* args = [arg.arg for arg in item.args.args if arg.arg != 'self']
MethodArgs(item) == SelectSeq(item.args, LAMBDA a : a # Self)

RECURSIVE ClassMethods(_, _)
ClassMethods(prefix, body) ==
  IF body = <<>> THEN <<>>
  ELSE (IF Head(body).kind = "FunctionDef"
        THEN << [name |-> Head(body).name,
                 full_name |-> prefix \o Dot \o Head(body).name,
                 args |-> MethodArgs(Head(body))] >>
        ELSE <<>>) \o ClassMethods(prefix, Tail(body))

RECURSIVE ClassAttributes(_, _)
ClassAttributes(prefix, body) ==
  IF body = <<>> THEN <<>>
  ELSE (IF Head(body).kind = "Assign" /\ Len(Head(body).targets) = 1
        THEN << [name |-> Head(body).targets[1],
                 full_name |-> prefix \o Dot \o Head(body).targets[1]] >>
        ELSE <<>>) \o ClassAttributes(prefix, Tail(body))

ClassInfo(module_path, node) ==
  [name |-> node.name,
   full_name |-> module_path \o Dot \o node.name,
   methods |-> ClassMethods(module_path \o Dot \o node.name, node.body),
   attributes |-> ClassAttributes(module_path \o Dot \o node.name, node.body)]

\* rel_path.replace(os.path.sep, '.'), then the '.py' suffix is cut.
ModulePath(rel) ==
  LET dotted == Replace(rel, Sep, ".")
  IN  IF EndsWith(dotted, DotPy) THEN SubSeq(dotted, 1, Len(dotted) - 3) ELSE dotted

\* The name given to a file whose read or parse raised (the except branch).
FailedName(rel) == Replace(rel, Sep, ".")

parse_python_file(file_path, src) ==
  IF src.ok
  THEN LET module_path == ModulePath(RelPath(file_path))
       IN  [path |-> file_path,
            name |-> module_path,
            imports |-> ImportVisitor(src.imports),
            classes |-> [n \in 1..Len(src.classes) |->
                           ClassInfo(module_path, src.classes[n])]]
  ELSE [path |-> file_path,
        name |-> FailedName(RelPath(file_path)),
        imports |-> <<>>,
        classes |-> <<>>]

find_and_parse_python_files(tree) ==
  [n \in 1..Len(tree) |-> parse_python_file(FilePath(tree[n].rel), tree[n].src)]

----------------------------------------------------------------------------
\* Program state.

VARIABLES
  tree,          \* the source tree on disk: the files in os.walk order
  run,           \* how many times process_project has been invoked
  status,        \* "idle", "running", "done" (returned) or "raised" (ended by an exception)
  pos,           \* control position [pc, i, j, k]: statement, module, class, member index
  modules,       \* the list returned by find_and_parse_python_files
  module_nodes,  \* dict: module path -> saved ModuleNode (its node id)
  module_node,   \* local of the module loop
  class_node,    \* local of the class loop
  member_node,   \* method_node / attr_node of the innermost loops
  nodes,         \* the store's nodes: [id, label, key, name, args]
  edges,         \* the store's relationships: [type, src, dst]
  created,       \* nodes created by the current run
  connects,      \* imports.connect calls made by the current run
  raised,        \* the exception the store raised in this run: [type, pc of the statement]
  before         \* how the previous run ended and, if it returned, the counts it left

vars == <<tree, run, status, pos, modules, module_nodes, module_node, class_node,
          member_node, nodes, edges, created, connects, raised, before>>

locals == <<module_node, class_node, member_node>>

NoException == [type |-> "none", pc |-> "none"]

At(pc, i, j, k) == [pc |-> pc, i |-> i, j |-> j, k |-> k]

\* dict.get(key): the value, or None (0).
Get(dict, key) == IF key \in DOMAIN dict THEN dict[key] ELSE 0

----------------------------------------------------------------------------
\* Loop control of save_project_to_neo4j: the next statement that touches
\* the store, given the loop indices about to be tried.

RECURSIVE ImportPos(_, _, _)
ImportPos(mods, i, k) ==
  IF i > Len(mods) THEN At("end", 0, 0, 0)
  ELSE IF k > Len(mods[i].imports) THEN ImportPos(mods, i + 1, 1)
  ELSE At("import", i, 0, k)

ModulePos(mods, i) ==
  IF i > Len(mods) THEN ImportPos(mods, 1, 1) ELSE At("module", i, 0, 0)

ClassPos(mods, i, j) ==
  IF j > Len(mods[i].classes) THEN ModulePos(mods, i + 1) ELSE At("class", i, j, 0)

AttrPos(mods, i, j, k) ==
  IF k > Len(mods[i].classes[j].attributes) THEN ClassPos(mods, i, j + 1)
  ELSE At("attr", i, j, k)

MethodPos(mods, i, j, k) ==
  IF k > Len(mods[i].classes[j].methods) THEN AttrPos(mods, i, j, 1)
  ELSE At("method", i, j, k)

FirstLoop == {"module", "class", "class_connect", "method", "method_connect",
              "attr", "attr_connect"}

\* Variant: the exception is caught around one module's writes and the first
\* loop goes on with the next module.
CaughtPerModule(p) ==
  IF p.pc \in FirstLoop THEN [status |-> "running", pos |-> ModulePos(modules, p.i + 1)]
  ELSE [status |-> "raised", pos |-> p]

\* An exception is caught nowhere: it leaves save_project_to_neo4j and
\* process_project, and the process ends where it was raised.
Uncaught(p) == [status |-> "raised", pos |-> p]

----------------------------------------------------------------------------
\* The store (neomodel over Neo4j).

\* unique_index=True: a node of that label with that key exists already.
KeyTaken(label, key) == \E n \in nodes : n.label = label /\ n.key = key

\* The id the store gives the next created node: one no live node has.
nextId == CHOOSE id \in 1..(Cardinality(nodes) + 1) :
            /\ \A n \in nodes : n.id # id
            /\ \A smaller \in 1..(id - 1) : \E n \in nodes : n.id = smaller

NewNode(label, key, name, args) ==
  [id |-> nextId, label |-> label, key |-> key, name |-> name, args |-> args]

\* StructuredNode.save() of a fresh node: creates it, or raises UniqueProperty.
Save(label, key, name, args, then) ==
  IF KeyTaken(label, key)
  THEN /\ status' = Uncaught(pos).status
       /\ pos' = Uncaught(pos).pos
       /\ raised' = [type |-> "UniqueProperty", pc |-> pos.pc]
       /\ UNCHANGED <<nodes, created>>
  ELSE /\ nodes' = nodes \cup {NewNode(label, key, name, args)}
       /\ created' = created + 1
       /\ pos' = then
       /\ UNCHANGED <<status, raised>>

\* RelationshipManager.connect: MERGE, so an existing relationship is kept.
Connect(type, src, dst) ==
  edges' = edges \cup {[type |-> type, src |-> src, dst |-> dst]}

Running(pc) == status = "running" /\ pos.pc = pc

Put(dict, key, value) ==
  [x \in DOMAIN dict \cup {key} |-> IF x = key THEN value ELSE dict[x]]

EmptyDict == [x \in {} |-> 0]

----------------------------------------------------------------------------
\* Import resolution: the two inner loops of the second step.

Matches(target_module, import_name) ==
  \/ target_module.name = import_name
  \/ EndsWith(target_module.name, Dot \o import_name)

\* Variant: the identity test is left out.
MayConnectAny(target_node, source_node) == target_node # 0

\* if target_node and target_node != source_node
MayConnect(target_node, source_node) ==
  target_node # 0 /\ target_node # source_node

\* Variant: the break follows the name test, so the first matching module
\* ends the search whether or not it gets connected.
RECURSIVE ResolveBreakOnMatch(_, _, _, _, _)
ResolveBreakOnMatch(t, mods, mnodes, source_node, import_name) ==
  IF t > Len(mods) THEN 0
  ELSE IF Matches(mods[t], import_name)
       THEN (IF MayConnect(Get(mnodes, mods[t].path), source_node)
             THEN Get(mnodes, mods[t].path) ELSE 0)
       ELSE ResolveBreakOnMatch(t + 1, mods, mnodes, source_node, import_name)

\* for target_module in modules (from index t on): the node that gets
\* connected before the break, or 0 when the loop runs out.
RECURSIVE ResolveFrom(_, _, _, _, _)
ResolveFrom(t, mods, mnodes, source_node, import_name) ==
  IF t > Len(mods) THEN 0
  ELSE IF /\ Matches(mods[t], import_name)
          /\ MayConnect(Get(mnodes, mods[t].path), source_node)
       THEN Get(mnodes, mods[t].path)
       ELSE ResolveFrom(t + 1, mods, mnodes, source_node, import_name)

----------------------------------------------------------------------------
\* Initial state and actions.

Init ==
  /\ tree \in Projects
  /\ run = 0
  /\ status = "idle"
  /\ pos = At("idle", 0, 0, 0)
  /\ modules = <<>>
  /\ module_nodes = EmptyDict
  /\ module_node = 0 /\ class_node = 0 /\ member_node = 0
  /\ nodes = {} /\ edges = {}
  /\ created = 0 /\ connects = 0
  /\ raised = NoException
  /\ before = [nodes |-> 0, edges |-> 0, status |-> "idle"]

\* process_project is invoked (python project2neo.py <root>).
StartRun ==
  /\ status \in {"idle", "done", "raised"}
  /\ run < MaxRuns
  /\ run' = run + 1
  /\ status' = "running"
  /\ pos' = At("clear", 0, 0, 0)
  /\ modules' = <<>>
  /\ module_nodes' = EmptyDict
  /\ module_node' = 0 /\ class_node' = 0 /\ member_node' = 0
  /\ created' = 0 /\ connects' = 0
  /\ raised' = NoException
  /\ before' = [status |-> status,
                nodes |-> IF status = "done" THEN Cardinality(nodes) ELSE 0,
                edges |-> IF status = "done" THEN Cardinality(edges) ELSE 0]
  /\ UNCHANGED <<tree, nodes, edges>>

\* MATCH (n) DETACH DELETE n
clear_database ==
  /\ Running("clear")
  /\ nodes' = {} /\ edges' = {}
  /\ pos' = At("parse", 0, 0, 0)
  /\ UNCHANGED <<tree, run, status, modules, module_nodes, locals, created,
                 connects, raised, before>>

\* modules = find_and_parse_python_files(project_root); save_project_to_neo4j
\* is entered with an empty module_nodes.
FindAndParse ==
  /\ Running("parse")
  /\ modules' = find_and_parse_python_files(tree)
  /\ module_nodes' = EmptyDict
  /\ pos' = ModulePos(modules', 1)
  /\ UNCHANGED <<tree, run, status, locals, nodes, edges, created, connects,
                 raised, before>>

SaveModule ==
  /\ Running("module")
  /\ LET module == modules[pos.i]
     IN  /\ Save("Module", module.path, module.name, <<>>, ClassPos(modules, pos.i, 1))
         /\ IF KeyTaken("Module", module.path)
            THEN UNCHANGED <<module_node, module_nodes>>
            ELSE /\ module_node' = nextId
                 /\ module_nodes' = Put(module_nodes, module.path, nextId)
  /\ UNCHANGED <<tree, run, modules, class_node, member_node, edges, connects, before>>

SaveClass ==
  /\ Running("class")
  /\ LET cls == modules[pos.i].classes[pos.j]
     IN  /\ Save("Class", cls.full_name, cls.name, <<>>,
                 At("class_connect", pos.i, pos.j, 0))
         /\ class_node' = IF KeyTaken("Class", cls.full_name) THEN class_node
                          ELSE nextId
  /\ UNCHANGED <<tree, run, modules, module_nodes, module_node, member_node, edges,
                 connects, before>>

ConnectClass ==
  /\ Running("class_connect")
  /\ Connect("CONTAINS_CLASS", module_node, class_node)
  /\ pos' = MethodPos(modules, pos.i, pos.j, 1)
  /\ UNCHANGED <<tree, run, status, modules, module_nodes, locals, nodes, created,
                 connects, raised, before>>

SaveMethod ==
  /\ Running("method")
  /\ LET method == modules[pos.i].classes[pos.j].methods[pos.k]
     IN  /\ Save("Method", method.full_name, method.name,
                 Join(<<",", " ">>, method.args),
                 At("method_connect", pos.i, pos.j, pos.k))
         /\ member_node' = IF KeyTaken("Method", method.full_name) THEN member_node
                           ELSE nextId
  /\ UNCHANGED <<tree, run, modules, module_nodes, module_node, class_node, edges,
                 connects, before>>

ConnectMethod ==
  /\ Running("method_connect")
  /\ Connect("HAS_METHOD", class_node, member_node)
  /\ pos' = MethodPos(modules, pos.i, pos.j, pos.k + 1)
  /\ UNCHANGED <<tree, run, status, modules, module_nodes, locals, nodes, created,
                 connects, raised, before>>

SaveAttribute ==
  /\ Running("attr")
  /\ LET attr == modules[pos.i].classes[pos.j].attributes[pos.k]
     IN  /\ Save("Attribute", attr.full_name, attr.name, <<>>,
                 At("attr_connect", pos.i, pos.j, pos.k))
         /\ member_node' = IF KeyTaken("Attribute", attr.full_name) THEN member_node
                           ELSE nextId
  /\ UNCHANGED <<tree, run, modules, module_nodes, module_node, class_node, edges,
                 connects, before>>

ConnectAttribute ==
  /\ Running("attr_connect")
  /\ Connect("HAS_ATTRIBUTE", class_node, member_node)
  /\ pos' = AttrPos(modules, pos.i, pos.j, pos.k + 1)
  /\ UNCHANGED <<tree, run, status, modules, module_nodes, locals, nodes, created,
                 connects, raised, before>>

\* The node one entry of module["imports"] gets connected to (0: none).
ImportTarget(i, k) ==
  LET source_node == Get(module_nodes, modules[i].path)
  IN  IF source_node = 0 THEN 0
      ELSE ResolveFrom(1, modules, module_nodes, source_node, modules[i].imports[k])

\* One pass of `for import_name in module["imports"]`.
ResolveImport ==
  /\ Running("import")
  /\ LET source_node == Get(module_nodes, modules[pos.i].path)
         target_node == ImportTarget(pos.i, pos.k)
     IN  /\ IF target_node # 0
            THEN /\ Connect("IMPORTS", source_node, target_node)
                 /\ connects' = connects + 1
            ELSE UNCHANGED <<edges, connects>>
         /\ pos' = IF source_node = 0 THEN ImportPos(modules, pos.i + 1, 1)
                   ELSE ImportPos(modules, pos.i, pos.k + 1)
  /\ UNCHANGED <<tree, run, status, modules, module_nodes, locals, nodes, created,
                 raised, before>>

\* save_project_to_neo4j returns and process_project prints its last line.
Finish ==
  /\ Running("end")
  /\ status' = "done"
  /\ UNCHANGED <<tree, run, pos, modules, module_nodes, locals, nodes, edges,
                 created, connects, raised, before>>

\* The store rejects the query about to be sent (connection lost, ...):
\* neomodel raises and nothing of that query is applied.
StoreError ==
  /\ status = "running"
  /\ \/ pos.pc \in FirstLoop \cup {"clear"}
     \/ pos.pc = "import" /\ ImportTarget(pos.i, pos.k) # 0
  /\ status' = Uncaught(pos).status
  /\ pos' = Uncaught(pos).pos
  /\ raised' = [type |-> "ServiceUnavailable", pc |-> pos.pc]
  /\ UNCHANGED <<tree, run, modules, module_nodes, locals, nodes, edges, created,
                 connects, before>>

Next ==
  \/ StartRun
  \/ clear_database
  \/ FindAndParse
  \/ SaveModule
  \/ SaveClass
  \/ ConnectClass
  \/ SaveMethod
  \/ ConnectMethod
  \/ SaveAttribute
  \/ ConnectAttribute
  \/ ResolveImport
  \/ Finish
  \/ StoreError

Spec == Init /\ [][Next]_vars

----------------------------------------------------------------------------
\* Vocabulary of the properties.

ImportEdges == {e \in edges : e.type = "IMPORTS"}
NodesOf(label) == {n \in nodes : n.label = label}
HasNode(label, key) == \E n \in nodes : n.label = label /\ n.key = key
NodeId(label, key) == (CHOOSE n \in nodes : n.label = label /\ n.key = key).id
HasEdge(type, src, dst) == [type |-> type, src |-> src, dst |-> dst] \in edges

\* The modules list is in place (save_project_to_neo4j has been entered).
Parsed == status # "idle" /\ pos.pc \notin {"clear", "parse"}
InSecondStep == Parsed /\ pos.pc \in {"import", "end"}
SubtreeFailed == raised.pc \in FirstLoop

\* Everything the first loop writes for one module record is in the store.
ClassWritten(module, cls) ==
  /\ HasNode("Class", cls.full_name)
  /\ HasEdge("CONTAINS_CLASS", NodeId("Module", module.path),
             NodeId("Class", cls.full_name))
  /\ \A k \in 1..Len(cls.methods) :
       /\ HasNode("Method", cls.methods[k].full_name)
       /\ HasEdge("HAS_METHOD", NodeId("Class", cls.full_name),
                  NodeId("Method", cls.methods[k].full_name))
  /\ \A k \in 1..Len(cls.attributes) :
       /\ HasNode("Attribute", cls.attributes[k].full_name)
       /\ HasEdge("HAS_ATTRIBUTE", NodeId("Class", cls.full_name),
                  NodeId("Attribute", cls.attributes[k].full_name))

SubtreeWritten(module) ==
  /\ HasNode("Module", module.path)
  /\ \A j \in 1..Len(module.classes) : ClassWritten(module, module.classes[j])

\* Nothing of one module record's subtree is in the store.
SubtreeAbsent(module) ==
  /\ ~HasNode("Module", module.path)
  /\ \A j \in 1..Len(module.classes) :
       /\ ~HasNode("Class", module.classes[j].full_name)
       /\ \A k \in 1..Len(module.classes[j].methods) :
            ~HasNode("Method", module.classes[j].methods[k].full_name)
       /\ \A k \in 1..Len(module.classes[j].attributes) :
            ~HasNode("Attribute", module.classes[j].attributes[k].full_name)

\* The entries of the import lists, and those the second step has been through.
Entries ==
  UNION { {<<i, k>> : k \in 1..Len(modules[i].imports)} : i \in 1..Len(modules) }
Resolved ==
  {e \in Entries :
     \/ pos.pc = "end"
     \/ pos.pc = "import" /\ (e[1] < pos.i \/ (e[1] = pos.i /\ e[2] < pos.k))}

\* Index of the module an entry is expected to be linked to: the first in
\* list order whose name is the reference or ends with "." + reference and
\* which is not the importing module; 0 when there is none.
Candidates(i, r) ==
  {t \in 1..Len(modules) :
     /\ (modules[t].name = r \/ EndsWith(modules[t].name, <<".">> \o r))
     /\ t # i}
FirstCandidate(i, r) ==
  IF Candidates(i, r) = {} THEN 0
  ELSE CHOOSE t \in Candidates(i, r) : \A u \in Candidates(i, r) : t <= u
ExpectedEdge(e) ==
  [type |-> "IMPORTS",
   src |-> NodeId("Module", modules[e[1]].path),
   dst |-> NodeId("Module",
                  modules[FirstCandidate(e[1], modules[e[1]].imports[e[2]])].path)]
Linked == {e \in Resolved : FirstCandidate(e[1], modules[e[1]].imports[e[2]]) # 0}

ModuleNodeId(t) == NodeId("Module", modules[t].path)
SelfMatch(e) ==
  LET name == modules[e[1]].name
      r == modules[e[1]].imports[e[2]]
  IN  name = r \/ EndsWith(name, <<".">> \o r)

----------------------------------------------------------------------------
\* Properties.

\* C1: no write raises a duplicate-key failure, and no two nodes of one
\* label share a uniqueness key.
C1_UpsertNeverFails ==
  /\ raised.type # "UniqueProperty"
  /\ \A n1, n2 \in nodes : (n1.label = n2.label /\ n1.key = n2.key) => n1 = n2

\* C2: a run over the unchanged tree that follows a completed run ends with
\* the node and edge counts that run left, having created no node.
C2_SecondRunCreatesNothing ==
  (status = "done" /\ before.status = "done") =>
    /\ Cardinality(nodes) = before.nodes
    /\ Cardinality(edges) = before.edges
    /\ created = 0

\* C3: when another discovered module is named exactly as the reference, the
\* importing module is linked to it, and a module is linked by suffix only
\* when no other module has that exact name, whatever the list order.
C3_ExactMatchFirst ==
  status = "done" =>
    /\ \A e \in Entries : \A t \in 1..Len(modules) :
         (t # e[1] /\ modules[t].name = modules[e[1]].imports[e[2]])
           => HasEdge("IMPORTS", ModuleNodeId(e[1]), ModuleNodeId(t))
    /\ \A x \in ImportEdges : \E e \in Entries : \E t \in 1..Len(modules) :
         LET r == modules[e[1]].imports[e[2]]
         IN  /\ x.src = ModuleNodeId(e[1])
             /\ x.dst = ModuleNodeId(t)
             /\ \/ modules[t].name = r
                \/ /\ EndsWith(modules[t].name, <<".">> \o r)
                   /\ \A u \in 1..Len(modules) : u # e[1] => modules[u].name # r

\* C4: after a write of a module's subtree has failed, nothing of that
\* module's subtree is in the store.
C4_NoPartialSubtree ==
  (status = "raised" /\ SubtreeFailed) => SubtreeAbsent(modules[pos.i])

\* C5: when a run has ended on a failed write of one module's subtree, every
\* other module of the list has been written all the same.
C5_FailureIsolated ==
  (status = "raised" /\ SubtreeFailed) =>
    \A t \in 1..Len(modules) : t # pos.i => SubtreeWritten(modules[t])

\* C6: once the run has made an imports.connect call, every module's subtree
\* has been written without a failure; every IMPORTS edge joins two Module
\* nodes that are in the store; a run whose subtree write failed makes no
\* imports.connect call.
C6_ImportBarrier ==
  /\ connects > 0 =>
       /\ ~SubtreeFailed
       /\ InSecondStep
       /\ \A t \in 1..Len(modules) : SubtreeWritten(modules[t])
  /\ \A e \in ImportEdges :
       /\ \E n \in NodesOf("Module") : n.id = e.src
       /\ \E n \in NodesOf("Module") : n.id = e.dst
  /\ SubtreeFailed => connects = 0

C6_Witness == status = "done" /\ connects > 0

\* C7: no IMPORTS edge has the same node as source and target.
C7_NoSelfImport == \A e \in ImportEdges : e.src # e.dst

C7_Witness == status = "done" /\ \E e \in Entries : SelfMatch(e)

\* C8: a module in a package that holds `from . import a` and
\* `from .a import x`, with a.py of the same package parsed in the same run,
\* is linked to that module when the run is done.
C8_RelativeImportResolved ==
  status = "done" =>
    \A s, t \in 1..Len(tree) :
      (/\ tree[s].rel = <<"p", "/", "b", ".", "p", "y">>
       /\ tree[s].src = RelativeImports
       /\ tree[t].rel = <<"p", "/", "a", ".", "p", "y">>
       /\ tree[t].src.ok)
      => HasEdge("IMPORTS", ModuleNodeId(s), ModuleNodeId(t))

\* C9: every record, of a file that parsed or not, is named by the
\* root-relative path with separators turned into dots and ".py" cut; a file
\* that did not parse has no imports and no classes and is written as a
\* Module node by a run that completes.
C9_RecordNamedByPath ==
  Parsed =>
    \A n \in 1..Len(modules) :
      /\ modules[n].name = ModulePath(tree[n].rel)
      /\ ~tree[n].src.ok => (modules[n].imports = <<>> /\ modules[n].classes = <<>>)
      /\ status = "done" => HasNode("Module", modules[n].path)

\* C10: in the second step, the IMPORTS edges are exactly those from each
\* resolved entry's module to its first candidate in list order (a module
\* matching by name or suffix other than the importing one), one connect call
\* was made per entry that has a candidate and none for the others, and no
\* node was added.
C10_FirstOtherMatch ==
  InSecondStep =>
    /\ ImportEdges = {ExpectedEdge(e) : e \in Linked}
    /\ connects = Cardinality(Linked)
    /\ Cardinality(NodesOf("Module")) = Len(modules)
    /\ Cardinality(nodes) = created

C10_Witness ==
  /\ status = "done"
  /\ \E e \in Linked :
       SelfMatch(e) /\ FirstCandidate(e[1], modules[e[1]].imports[e[2]]) > e[1]
  /\ \E e \in Entries : e \notin Linked

====
